---- MODULE Spec2Model ----
(***************************************************************************)
(* Model of bot/helper/ext_utils/auto_processor.py: the admission filter   *)
(* auto_message_filter and the dispatch engine                             *)
(* AutoProcessor.process_auto_message with its two command synthesizers    *)
(* _process_media and _process_url.                                        *)
(*                                                                         *)
(* Strings are sequences of chunks (a chunk is a piece of text that the    *)
(* code never looks inside); None is the empty tuple and a present value   *)
(* x is the one-element tuple <<x>>.  Python objects live in a heap of two *)
(* references: "msg", the incoming message, and "cmd", the object that     *)
(* copy.copy creates.                                                      *)
(***************************************************************************)
EXTENDS Integers, Sequences, FiniteSets, TLC

VARIABLES heap, user_data, pc, admitted, locals, tasks, exc, result, msg0

vars == <<heap, user_data, pc, admitted, locals, tasks, exc, result, msg0>>

\* ------------------------------------------------------------------ bounds
MaxLen == 3
MaxCaptionLen == 2

\* ------------------------------------------------------- optional values
None == <<>>
Some(x) == <<x>>
Val(o) == o[1]

\* Python truthiness of an optional string: neither None nor ""
Truthy(o) == o # None /\ Val(o) # <<>>

\* ----------------------------------------------------------- vocabulary
\* The chunks that input strings are built from.
Chunks == {" ", "/", "example.com", "YouTu.be", "magnet:?xt=urn:btih:", "tg://openmessage?user_id="}

HostChunks == {"example.com", "YouTu.be"}

RECURSIVE SeqsUpTo(_, _)
SeqsUpTo(S, n) ==
    IF n = 0 THEN {<<>>}
    ELSE LET shorter == SeqsUpTo(S, n - 1)
         IN  shorter \cup {Append(s, c) : s \in {t \in shorter : Len(t) = n - 1}, c \in S}

\* ------------------------------------------------------- string helpers
\* str.split(): maximal runs of non-whitespace chunks, in order
RECURSIVE SplitFrom(_, _, _)
SplitFrom(s, i, cur) ==
    IF i > Len(s) THEN (IF cur = <<>> THEN <<>> ELSE <<cur>>)
    ELSE IF s[i] = " "
         THEN (IF cur = <<>> THEN <<>> ELSE <<cur>>) \o SplitFrom(s, i + 1, <<>>)
         ELSE SplitFrom(s, i + 1, Append(cur, s[i]))

split(s) == SplitFrom(s, 1, <<>>)

\* str.lower(), chunk by chunk
LowerChunk(c) == IF c = "YouTu.be" THEN "youtu.be" ELSE c

lower(w) == [i \in 1..Len(w) |-> LowerChunk(w[i])]

\* `domain in word`: substring test at chunk granularity
Contains(w, domain) == \E i \in 1..Len(w) : w[i] = domain

\* str.startswith('/')
startswith_slash(s) == Len(s) > 0 /\ s[1] = "/"

\* ------------------------------------------------------- link predicates
\* bot.helper.ext_utils.links_utils (pure syntactic tests)
RECURSIVE HostRun(_, _)
HostRun(w, i) == IF i <= Len(w) /\ w[i] \in HostChunks THEN HostRun(w, i + 1) ELSE i

is_url(w) ==
    LET k == HostRun(w, 1)
    IN  k > 1 /\ (k > Len(w) \/ w[k] = "/")

is_magnet(w) == Len(w) > 0 /\ w[1] = "magnet:?xt=urn:btih:"

is_telegram_link(w) == Len(w) > 0 /\ w[1] = "tg://openmessage?user_id="

\* ------------------------------------------------------ command registry
BotCommands ==
    [LeechCommand |-> <<"leech">>, MirrorCommand |-> <<"mirror">>,
     YtdlLeechCommand |-> <<"ytdlleech">>, YtdlCommand |-> <<"ytdl">>]

\* ---------------------------------------------------------- video domains
video_domains ==
    {"youtube.", "youtu.be", "twitter.", "x.com", "instagram.",
     "facebook.", "vimeo.", "dailymotion.", "soundcloud.",
     "tiktok.", "twitch.", "reddit.com"}

\* any(domain in word.lower() for domain in video_domains)
is_video_word(w) == \E domain \in video_domains : Contains(lower(w), domain)

\* --------------------------------------------------------------- messages
MediaFields == {"document", "photo", "video", "audio", "voice", "video_note", "sticker", "animation"}

NoMedia ==
    [document |-> None, photo |-> None, video |-> None, audio |-> None,
     voice |-> None, video_note |-> None, sticker |-> None, animation |-> None]

Attachments == {NoMedia} \cup {[NoMedia EXCEPT ![k] = Some("file")] : k \in MediaFields}

Texts == SeqsUpTo(Chunks, MaxLen)
Captions == SeqsUpTo(Chunks, MaxCaptionLen)

\* text messages carry text, media messages carry a caption; an empty text
\* with a caption exercises the fallback of `message.text or message.caption`
Payloads ==
    {[text |-> Some(t), caption |-> None] : t \in Texts}
    \cup {[text |-> None, caption |-> Some(c)] : c \in Captions}
    \cup {[text |-> Some(<<>>), caption |-> Some(c)] : c \in Captions}
    \cup {[text |-> None, caption |-> None]}

Human == [id |-> 1, is_bot |-> FALSE]
Bot == [id |-> 2, is_bot |-> TRUE]

Flags == [AUTO_YT_LEECH : BOOLEAN, AUTO_LEECH : BOOLEAN, AUTO_MIRROR : BOOLEAN]

AllOn == [AUTO_YT_LEECH |-> TRUE, AUTO_LEECH |-> TRUE, AUTO_MIRROR |-> TRUE]

\* sender and preference store: no sender, a user without a record, a user
\* with any record, a bot without a record or with every flag set
EmptyStore == [u \in {} |-> AllOn]

Senders ==
    {[from_user |-> None, store |-> (1 :> AllOn)]}
    \cup {[from_user |-> Some(Human), store |-> EmptyStore]}
    \cup {[from_user |-> Some(Human), store |-> (1 :> f)] : f \in Flags}
    \cup {[from_user |-> Some(Bot), store |-> EmptyStore]}
    \cup {[from_user |-> Some(Bot), store |-> (2 :> AllOn)]}

NewMessage(s, p, a) ==
    [from_user |-> s.from_user, text |-> p.text, caption |-> p.caption,
     reply_to_message |-> Some("other"), private_client |-> Some("app"), client |-> None,
     document |-> a.document, photo |-> a.photo, video |-> a.video, audio |-> a.audio,
     voice |-> a.voice, video_note |-> a.video_note, sticker |-> a.sticker,
     animation |-> a.animation]

NoLocals ==
    [user_id |-> 0, auto_yt_leech |-> FALSE, auto_leech |-> FALSE, auto_mirror |-> FALSE,
     original_text |-> None, original_caption |-> None,
     has_media |-> FALSE, links |-> <<>>, video_links |-> <<>>, regular_links |-> <<>>]

Init ==
    /\ \E s \in Senders, p \in Payloads, a \in Attachments :
          /\ heap = [msg |-> Some(NewMessage(s, p, a)), cmd |-> None]
          /\ msg0 = NewMessage(s, p, a)
          /\ user_data = s.store
    /\ pc = "filter"
    /\ admitted = "unset"
    /\ locals = NoLocals
    /\ tasks = <<>>
    /\ exc = None
    /\ result = "none"

\* ------------------------------------------------------- preference store
\* dict.get(key, False)
DictGet_DefaultTrue(d, k) == IF k \in DOMAIN d THEN d[k] ELSE TRUE

DictGet(d, k) == IF k \in DOMAIN d THEN d[k] ELSE FALSE

EmptyDict == [k \in {} |-> FALSE]

\* user_data.get(user_id, {})
user_dict_of(store, user_id) == IF user_id \in DOMAIN store THEN store[user_id] ELSE EmptyDict

\* --------------------------------------------------------- content scan
\* bool(message.document or message.photo or ... or message.animation)
has_media_of(m) == \E k \in MediaFields : m[k] # None

\* message.text or message.caption or ""
message_text_of(m) ==
    IF Truthy(m.text) THEN Val(m.text)
    ELSE IF Truthy(m.caption) THEN Val(m.caption)
    ELSE <<>>

is_link(w) == is_url(w) \/ is_magnet(w) \/ is_telegram_link(w)

RECURSIVE Filter(_, _, _)
Filter(ws, i, keep) ==
    IF i > Len(ws) THEN <<>>
    ELSE (IF keep = "links" /\ is_link(ws[i]) THEN <<ws[i]>>
          ELSE IF keep = "video" /\ is_link(ws[i]) /\ is_video_word(ws[i]) THEN <<ws[i]>>
          ELSE IF keep = "regular" /\ is_link(ws[i]) /\ ~is_video_word(ws[i]) THEN <<ws[i]>>
          ELSE <<>>) \o Filter(ws, i + 1, keep)

\* the loop of process_auto_message over message_text.split()
scan_links(m) ==
    LET words == split(message_text_of(m))
    IN  [links |-> Filter(words, 1, "links"),
         video_links |-> Filter(words, 1, "video"),
         regular_links |-> Filter(words, 1, "regular")]

\* ------------------------------------------------------ admission filter
filter_yt_only_KeepsMedia(m, message_text, has_url, has_media) == has_url \/ has_media

\* the AUTO_YT_LEECH-only branch of auto_message_filter
filter_yt_only(m, message_text, has_url, has_media) ==
    /\ has_url
    /\ \E i \in 1..Len(split(message_text)) :
          LET word == split(message_text)[i]
          IN  is_url(word) /\ (\E domain \in video_domains : Contains(lower(word), domain))

auto_message_filter(store, m) ==
    IF Truthy(m.text) /\ startswith_slash(Val(m.text)) THEN FALSE
    ELSE IF m.from_user # None /\ Val(m.from_user).is_bot THEN FALSE
    ELSE IF m.from_user = None THEN FALSE
    ELSE LET user_id == Val(m.from_user).id
             user_dict == user_dict_of(store, user_id)
             auto_yt_leech == DictGet(user_dict, "AUTO_YT_LEECH")
             auto_leech == DictGet(user_dict, "AUTO_LEECH")
             auto_mirror == DictGet(user_dict, "AUTO_MIRROR")
             message_text == message_text_of(m)
             has_url == \E i \in 1..Len(split(message_text)) : is_link(split(message_text)[i])
             has_media == has_media_of(m)
         IN  IF ~(auto_yt_leech \/ auto_leech \/ auto_mirror) THEN FALSE
             ELSE IF auto_yt_leech /\ ~(auto_leech \/ auto_mirror)
                  THEN filter_yt_only(m, message_text, has_url, has_media)
                  ELSE has_url \/ has_media

\* ---------------------------------------------------------------- heap
Msg == Val(heap["msg"])

copy_copy_Alias(h, src) == [ref |-> src, heap |-> h]

\* copy.copy(message): a new object with the same attribute values
copy_copy(h, src) == [ref |-> "cmd", heap |-> [h EXCEPT !["cmd"] = h[src]]]

SetAttr(h, ref, field, v) == [h EXCEPT ![ref] = Some([Val(h[ref]) EXCEPT ![field] = v])]

RECURSIVE SetAll(_, _, _, _)
SetAll(h, ref, fields, v) ==
    IF fields = {} THEN h
    ELSE LET f == CHOOSE x \in fields : TRUE
         IN  SetAll(SetAttr(h, ref, f, v), ref, fields \ {f}, v)

clear_media_KeepsSticker(h, ref) == SetAll(h, ref, MediaFields \ {"sticker"}, None)

\* command_message.document = None ... command_message.animation = None
clear_media(h, ref) == SetAll(h, ref, MediaFields, None)

\* the two `if not hasattr(...) or ... is None` assignments
set_client(h, ref) ==
    LET h1 == IF Val(h[ref]).private_client = None
              THEN SetAttr(h, ref, "private_client", Some("app")) ELSE h
    IN  IF Val(h1[ref]).client = None THEN SetAttr(h1, ref, "client", Some("app")) ELSE h1

Task(handler, h, ref, is_leech) ==
    [handler |-> handler, message |-> Val(h[ref]), ref |-> ref, is_qbit |-> FALSE,
     is_leech |-> is_leech, raised |-> FALSE]

\* -------------------------------------------------------- _process_media
process_media(h, is_leech) ==
    LET command_name == IF is_leech THEN BotCommands.LeechCommand[1]
                        ELSE BotCommands.MirrorCommand[1]
        command_text == <<"/", command_name>>
        c == copy_copy(h, "msg")
        h1 == SetAttr(c.heap, c.ref, "text", Some(command_text))
        h2 == SetAttr(h1, c.ref, "caption", None)
        h3 == set_client(h2, c.ref)
        h4 == SetAttr(h3, c.ref, "reply_to_message", Some("msg"))
        h5 == clear_media(h4, c.ref)
    IN  [heap |-> h5, task |-> Task("Mirror", h5, c.ref, is_leech)]

\* ---------------------------------------------------------- _process_url
url_is_video_NoLower(url) == \E domain \in video_domains : Contains(url, domain)

\* is_video_url = any(domain in url.lower() for domain in video_domains)
url_is_video(url) == \E domain \in video_domains : Contains(lower(url), domain)

process_url(h, url, is_leech, force_ytdlp) ==
    LET is_video_url == IF force_ytdlp THEN TRUE ELSE url_is_video(url)
        command_name ==
            IF is_video_url
            THEN (IF is_leech THEN BotCommands.YtdlLeechCommand[1] ELSE BotCommands.YtdlCommand[1])
            ELSE (IF is_leech THEN BotCommands.LeechCommand[1] ELSE BotCommands.MirrorCommand[1])
        command_text == <<"/", command_name, " ">> \o url
        c == copy_copy(h, "msg")
        h1 == SetAttr(c.heap, c.ref, "text", Some(command_text))
        h2 == SetAttr(h1, c.ref, "caption", None)
        h3 == set_client(h2, c.ref)
        h4 == SetAttr(h3, c.ref, "reply_to_message", None)
        h5 == clear_media(h4, c.ref)
    IN  [heap |-> h5,
         task |-> Task(IF is_video_url THEN "YtDlp" ELSE "Mirror", h5, c.ref, is_leech)]

\* ============================================================== actions
\* the event layer evaluates auto_message_filter on the incoming message
RunFilter ==
    /\ pc = "filter"
    /\ admitted' = (IF auto_message_filter(user_data, Msg) THEN "yes" ELSE "no")
    /\ pc' = "enter"
    /\ UNCHANGED <<heap, user_data, locals, tasks, exc, result, msg0>>

\* process_auto_message, up to the try block: the two early returns
Enter ==
    /\ pc = "enter"
    /\ LET user_id == IF Msg.from_user # None THEN Val(Msg.from_user).id ELSE 0
           user_dict == user_dict_of(user_data, user_id)
           auto_yt_leech == DictGet(user_dict, "AUTO_YT_LEECH")
           auto_leech == DictGet(user_dict, "AUTO_LEECH")
           auto_mirror == DictGet(user_dict, "AUTO_MIRROR")
       IN  IF user_id = 0
           THEN /\ pc' = "done"
                /\ result' = "returned"
                /\ UNCHANGED locals
           ELSE IF ~(auto_yt_leech \/ auto_leech \/ auto_mirror)
           THEN /\ pc' = "done"
                /\ result' = "returned"
                /\ locals' = [locals EXCEPT !.user_id = user_id]
           ELSE /\ pc' = "scan"
                /\ result' = result
                /\ locals' = [locals EXCEPT !.user_id = user_id,
                                            !.auto_yt_leech = auto_yt_leech,
                                            !.auto_leech = auto_leech,
                                            !.auto_mirror = auto_mirror,
                                            !.original_text = Msg.text,
                                            !.original_caption = Msg.caption]
    /\ UNCHANGED <<heap, user_data, admitted, tasks, exc, msg0>>

has_url(l) == Len(l.links) > 0
has_video_url(l) == Len(l.video_links) > 0

\* the if / elif / elif chain of process_auto_message
yt_leech_branch(l) == l.auto_yt_leech /\ has_video_url(l)

media_branch_If(l) == l.has_media /\ (l.auto_leech \/ l.auto_mirror)

media_branch(l) == ~yt_leech_branch(l) /\ l.has_media /\ (l.auto_leech \/ l.auto_mirror)

url_branch(l) ==
    ~yt_leech_branch(l) /\ ~media_branch(l) /\ has_url(l) /\ (l.auto_leech \/ l.auto_mirror)

\* the next statement of the chain to run after position `from`
NextBranch(l, from) ==
    IF from < 1 /\ yt_leech_branch(l) THEN "yt_leech"
    ELSE IF from < 2 /\ media_branch(l) THEN "media"
    ELSE IF from < 3 /\ url_branch(l) THEN "url"
    ELSE "finally"

\* the content scan, and the return when nothing is actionable
Scan ==
    /\ pc = "scan"
    /\ LET sc == scan_links(Msg)
           l == [locals EXCEPT !.has_media = has_media_of(Msg), !.links = sc.links,
                               !.video_links = sc.video_links,
                               !.regular_links = sc.regular_links]
       IN  /\ locals' = l
           /\ pc' = IF ~l.has_media /\ ~has_url(l) THEN "finally" ELSE NextBranch(l, 0)
    /\ UNCHANGED <<heap, user_data, admitted, tasks, exc, result, msg0>>

except_Exception_Misses(e) == FALSE

\* `except Exception as e` catches whatever the handlers raise
except_Exception(e) == TRUE

\* a helper has run up to `await task.new_event()`, which returns or raises
Begin(r, from, raised) ==
    /\ heap' = r.heap
    /\ tasks' = Append(tasks, [r.task EXCEPT !.raised = raised])
    /\ IF raised
       THEN /\ exc' = Some("Exception")
            /\ pc' = IF except_Exception("Exception") THEN "except" ELSE "finally"
       ELSE /\ exc' = exc
            /\ pc' = NextBranch(locals, from)
    /\ UNCHANGED <<user_data, admitted, locals, result, msg0>>

yt_leech_url_FirstLink(l) == l.links[1]

\* video_links[0]
yt_leech_url(l) == l.video_links[1]

YtLeechBranch ==
    /\ pc = "yt_leech"
    /\ \E raised \in BOOLEAN :
          Begin(process_url(heap, yt_leech_url(locals), TRUE, TRUE), 1, raised)

media_is_leech_NotMirror(l) == ~l.auto_mirror

\* is_leech = auto_leech
media_is_leech(l) == l.auto_leech

MediaBranch ==
    /\ pc = "media"
    /\ \E raised \in BOOLEAN :
          Begin(process_media(heap, media_is_leech(locals)), 2, raised)

UrlBranch ==
    /\ pc = "url"
    /\ \E raised \in BOOLEAN :
          Begin(process_url(heap, locals.links[1], locals.auto_leech, FALSE), 3, raised)

\* except Exception: log and suppress
Except ==
    /\ pc = "except"
    /\ exc' = None
    /\ pc' = "finally"
    /\ UNCHANGED <<heap, user_data, admitted, locals, tasks, result, msg0>>

\* finally: restore message.text / message.caption, then return or propagate
Finally ==
    /\ pc = "finally"
    /\ LET h1 == IF locals.original_text # None
                 THEN SetAttr(heap, "msg", "text", locals.original_text) ELSE heap
           h2 == IF locals.original_caption # None
                 THEN SetAttr(h1, "msg", "caption", locals.original_caption) ELSE h1
       IN  heap' = h2
    /\ pc' = "done"
    /\ result' = IF exc = None THEN "returned" ELSE "propagated"
    /\ UNCHANGED <<user_data, admitted, locals, tasks, exc, msg0>>

Next ==
    \/ RunFilter
    \/ Enter
    \/ Scan
    \/ YtLeechBranch
    \/ MediaBranch
    \/ UrlBranch
    \/ Except
    \/ Finally

Spec == Init /\ [][Next]_vars

\* ========================================================== properties
\* the inputs of the call, read from the message as it arrived
Sender0 == msg0.from_user
HasRecord0 == Sender0 # None /\ Val(Sender0).id \in DOMAIN user_data
Stored(k) == HasRecord0 /\ user_data[Val(Sender0).id][k]
AutoYtLeech == Stored("AUTO_YT_LEECH")
AutoLeech == Stored("AUTO_LEECH")
AutoMirror == Stored("AUTO_MIRROR")
HasMedia0 == \E k \in MediaFields : msg0[k] # None
Links0 == scan_links(msg0).links
VideoLinks0 == scan_links(msg0).video_links
YtLeechFires == AutoYtLeech /\ Len(VideoLinks0) > 0
Done == pc = "done"
LeechName == BotCommands.LeechCommand[1]
MirrorName == BotCommands.MirrorCommand[1]
YtdlLeechName == BotCommands.YtdlLeechCommand[1]
YtdlName == BotCommands.YtdlCommand[1]
MediaCleared(m) == \A k \in MediaFields : m[k] = None

\* C1: a sender whose three flags are all false (or who has no record) never
\* gets a handler invoked, whatever the message carries.
C1_NoModeNoDispatch ==
    (~AutoYtLeech /\ ~AutoLeech /\ ~AutoMirror) => tasks = <<>>

C1_Witness ==
    /\ Done
    /\ Sender0 # None
    /\ ~HasRecord0
    /\ HasMedia0
    /\ Len(Links0) > 0
    /\ tasks = <<>>

\* C2: with autoYtLeech set and a video link in the text, the call invokes
\* the video-extraction handler, and only it, on the first video link with
\* is_leech true, whatever the other flags, media and links are.
C2_YtLeechPriority ==
    (Done /\ YtLeechFires) =>
        /\ Len(tasks) = 1
        /\ tasks[1].handler = "YtDlp"
        /\ tasks[1].is_leech
        /\ tasks[1].message.text = Some(<<"/", YtdlLeechName, " ">> \o VideoLinks0[1])

C2_Witness ==
    /\ Done
    /\ YtLeechFires
    /\ AutoLeech
    /\ AutoMirror
    /\ HasMedia0
    /\ Links0[1] # VideoLinks0[1]
    /\ Len(tasks) = 1
    /\ tasks[1].handler = "YtDlp"

\* C3: once the call is over, on every exit path, the incoming message's text
\* and caption are what they were before the call.
C3_Restoration ==
    Done => (Msg.text = msg0.text /\ Msg.caption = msg0.caption)

C3_Witness ==
    /\ Done
    /\ msg0.text = None
    /\ msg0.caption # None
    /\ Len(tasks) = 1
    /\ tasks[1].raised
    /\ tasks[1].message.text # None
    /\ tasks[1].message.caption = None

\* C4: a failure raised by a handler is suppressed: the call returns normally
\* and no handler is invoked after the failed one.
C4_FailureSuppressed ==
    /\ Done => (result = "returned" /\ exc = None)
    /\ \A i \in 1..Len(tasks) : tasks[i].raised => Len(tasks) = 1

C4_Witness ==
    /\ Done
    /\ result = "returned"
    /\ Len(tasks) = 1
    /\ tasks[1].raised

YtLeechOnly == AutoYtLeech /\ ~AutoLeech /\ ~AutoMirror

\* C5: in YtLeech-only mode a non-command message of a non-bot sender is
\* admitted exactly when one of its detected links is categorized video.
C5_YtOnlyAdmission ==
    (/\ admitted # "unset"
     /\ YtLeechOnly
     /\ ~Val(Sender0).is_bot
     /\ ~(Truthy(msg0.text) /\ startswith_slash(Val(msg0.text))))
        => (admitted = "yes" <=> Len(VideoLinks0) > 0)

\* C6: when autoLeech and autoMirror are both set, every handler invoked gets
\* is_leech true and a leech command name.
C6_LeechOverMirror ==
    (AutoLeech /\ AutoMirror) =>
        \A i \in 1..Len(tasks) :
            /\ tasks[i].is_leech
            /\ Val(tasks[i].message.text)[2] \in {LeechName, YtdlLeechName}

C6_Witness ==
    /\ Done
    /\ AutoLeech
    /\ AutoMirror
    /\ ~AutoYtLeech
    /\ HasMedia0
    /\ Len(tasks) = 1
    /\ tasks[1].handler = "Mirror"

\* C7: at most one handler is invoked per call.
C7_AtMostOneTask == Len(tasks) <= 1

C7_Witness ==
    /\ Done
    /\ YtLeechFires
    /\ AutoLeech
    /\ HasMedia0
    /\ Len(Links0) > 1
    /\ Len(tasks) = 1
    /\ ~tasks[1].raised

MediaCase == HasMedia0 /\ (AutoLeech \/ AutoMirror) /\ ~YtLeechFires

\* C8: media wins over links: the mirror/leech handler gets a copy whose text
\* is the bare leech or mirror command, with caption and attachments cleared
\* and the incoming message as reply context; the incoming message keeps its
\* attachments.
C8_MediaPrecedence ==
    (Done /\ MediaCase) =>
        /\ Len(tasks) = 1
        /\ tasks[1].handler = "Mirror"
        /\ tasks[1].is_leech = AutoLeech
        /\ tasks[1].ref # "msg"
        /\ tasks[1].message.text = Some(<<"/", IF AutoLeech THEN LeechName ELSE MirrorName>>)
        /\ tasks[1].message.caption = None
        /\ MediaCleared(tasks[1].message)
        /\ tasks[1].message.reply_to_message = Some("msg")
        /\ \A k \in MediaFields : Msg[k] = msg0[k]

C8_Witness ==
    /\ Done
    /\ MediaCase
    /\ msg0.sticker # None
    /\ Len(Links0) > 0
    /\ Len(tasks) = 1
    /\ tasks[1].message.sticker = None

LinkCase == ~HasMedia0 /\ Len(Links0) > 0 /\ (AutoLeech \/ AutoMirror) /\ ~YtLeechFires

CommandFor(handler, is_leech) ==
    IF handler = "YtDlp"
    THEN (IF is_leech THEN YtdlLeechName ELSE YtdlName)
    ELSE (IF is_leech THEN LeechName ELSE MirrorName)

\* C9: without media the first link decides: the video-extraction handler
\* exactly when it is a video link, else the mirror/leech handler, with
\* is_leech = autoLeech, the matching command followed by the link, and no
\* reply context.
C9_LinkRouting ==
    (Done /\ LinkCase) =>
        /\ Len(tasks) = 1
        /\ tasks[1].handler \in {"YtDlp", "Mirror"}
        /\ (tasks[1].handler = "YtDlp" <=> is_video_word(Links0[1]))
        /\ tasks[1].is_leech = AutoLeech
        /\ tasks[1].message.text
              = Some(<<"/", CommandFor(tasks[1].handler, AutoLeech), " ">> \o Links0[1])
        /\ tasks[1].message.reply_to_message = None

C9_Witness ==
    /\ Done
    /\ LinkCase
    /\ ~AutoLeech
    /\ Len(tasks) = 1
    /\ tasks[1].handler = "YtDlp"
    /\ Val(tasks[1].message.text)[2] = YtdlName

\* C10: a message the filter admits makes the engine invoke exactly one
\* handler, when no failure is raised.
C10_AdmittedIsDispatched ==
    (Done /\ admitted = "yes" /\ (\A i \in 1..Len(tasks) : ~tasks[i].raised))
        => Len(tasks) = 1

C10_Witness ==
    /\ Done
    /\ admitted = "yes"
    /\ YtLeechOnly
    /\ HasMedia0
    /\ Len(tasks) = 1
    /\ ~tasks[1].raised

====
